---- MODULE Spec2Model ----
(***************************************************************************)
(* Model of the Docker-catalog to MCP-registry seed converter (package     *)
(* main: main, buildConfigMap, transformEntry, convertBraces, extractVars).*)
(*                                                                         *)
(* Go strings that the program inspects byte by byte are sequences of      *)
(* one-character strings; strings the program only copies or prefixes      *)
(* (entry keys, env names, types) are TLA+ strings.  A Go map is a         *)
(* function; a nil map and an empty map are both the empty function (the   *)
(* program only takes len() of them and serialises them with omitempty).   *)
(* A nil pointer / absent slice element is the empty sequence, a non-nil   *)
(* pointer a one-element sequence.                                         *)
(***************************************************************************)
EXTENDS Integers, Sequences, FiniteSets, TLC

VARIABLES
    catalog, pending, servers, pc,      \* main: the catalog and the batch loop
    name, entry, server, tpc,           \* one call of transformEntry
    value, canon, start, variables, scanpc  \* convertBraces / extractVars on one string

vars == <<catalog, pending, servers, pc, name, entry, server, tpc,
          value, canon, start, variables, scanpc>>

batchVars == <<catalog, pending, servers, pc>>
entryVars == <<name, entry, server, tpc>>
scanVars == <<value, canon, start, variables, scanpc>>

\* ------------------------------------------------------------------ bounds
MaxLen == 8
MaxItems == 2
MaxKeys == 3
DescSlack == 3

\* ------------------------------------------------------- string primitives
OpenTok == <<"{", "{">>
CloseTok == <<"}", "}">>

EmptyMap == [k \in {} |-> TRUE]

\* value[from:] (0-based byte offset, as a Go slice expression)
SliceFrom(s, from) == SubSeq(s, from + 1, Len(s))

\* value[from:to]
Slice(s, from, to) == SubSeq(s, from + 1, to)

HasPrefix(s, prefix) ==
    /\ Len(s) >= Len(prefix)
    /\ SubSeq(s, 1, Len(prefix)) = prefix

\* strings.Index: 0-based offset of the first occurrence of sub in s, or -1
Index(s, sub) ==
    LET hits == {i \in 0..(Len(s) - Len(sub)) : SubSeq(s, i + 1, i + Len(sub)) = sub}
    IN  IF hits = {} THEN -1 ELSE CHOOSE i \in hits : \A j \in hits : i <= j

Contains(s, sub) == Index(s, sub) # -1

\* strings.ReplaceAll for a non-empty old: leftmost, non-overlapping matches
RECURSIVE ReplaceAll(_, _, _)
ReplaceAll(s, old, new) ==
    LET i == Index(s, old)
    IN  IF i = -1 THEN s
        ELSE SubSeq(s, 1, i) \o new \o ReplaceAll(SliceFrom(s, i + Len(old)), old, new)

\* strings.SplitN(s, sep, 2): at most two parts, split at the first sep
SplitN2(s, sep) ==
    LET i == Index(s, sep)
    IN  IF i = -1 THEN <<s>>
        ELSE <<SubSeq(s, 1, i), SliceFrom(s, i + Len(sep))>>

\* strings.Split(s, sep)[0]: the text before the first sep, or all of s
FirstSegment(s, sep) ==
    LET i == Index(s, sep)
    IN  IF i = -1 THEN s ELSE SubSeq(s, 1, i)

\* ------------------------------------------------------------ convertBraces
\* A variant of convertBraces whose second replacement matches a single
\* closing brace and drops it.
convertBracesDropClose(v) ==
    ReplaceAll(ReplaceAll(v, OpenTok, <<"{">>), <<"}">>, <<>>)

\* Lines 407-411
convertBraces(v) ==
    ReplaceAll(ReplaceAll(v, OpenTok, <<"{">>), CloseTok, <<"}">>)

\* -------------------------------------------------------------- extractVars
\* InputSchema as built at lines 434-443
InputSchemaFor(varName, configMap) ==
    [IsSecret |-> FALSE,
     IsRequired |-> FALSE,
     Format |-> "string",
     Description |->
        IF varName \in DOMAIN configMap /\ configMap[varName].hasDescription
        THEN configMap[varName].description
        ELSE ""]

\* map assignment m[k] = v
MapPut(m, k, v) == [x \in (DOMAIN m) \cup {k} |-> IF x = k THEN v ELSE m[x]]

\* A variant of ScanIter that looks for the closing token from the scan
\* position instead of from the opening token.
ScanIterFromStart(v, st, vs, configMap) ==
    LET rel == Index(SliceFrom(v, st), OpenTok)
        idx == rel + st
        relEnd == Index(SliceFrom(v, st), CloseTok)
        endIdx == relEnd + st
        varName == FirstSegment(Slice(v, idx + 2, endIdx), <<"|">>)
    IN  IF rel = -1 THEN [status |-> "noopen", start |-> st, variables |-> vs]
        ELSE IF relEnd = -1 THEN [status |-> "unterminated", start |-> st, variables |-> vs]
        ELSE IF idx + 2 > endIdx THEN [status |-> "panic", start |-> st, variables |-> vs]
        ELSE [status |-> "found",
              start |-> endIdx + 2,
              variables |-> MapPut(vs, varName, InputSchemaFor(varName, configMap))]

\* One iteration of the for loop of extractVars (lines 417-447) from scan
\* position st with the map vs built so far.  A slice expression with
\* low > high is a run-time panic in Go.
ScanIter(v, st, vs, configMap) ==
    LET rel == Index(SliceFrom(v, st), OpenTok)
        idx == rel + st
        relEnd == Index(SliceFrom(v, idx), CloseTok)
        endIdx == relEnd + idx
        varName == FirstSegment(Slice(v, idx + 2, endIdx), <<"|">>)
    IN  IF rel = -1 THEN [status |-> "noopen", start |-> st, variables |-> vs]
        ELSE IF relEnd = -1 THEN [status |-> "unterminated", start |-> st, variables |-> vs]
        ELSE IF idx + 2 > endIdx THEN [status |-> "panic", start |-> st, variables |-> vs]
        ELSE [status |-> "found",
              start |-> endIdx + 2,
              variables |-> MapPut(vs, varName, InputSchemaFor(varName, configMap))]

RECURSIVE ExtractLoop(_, _, _, _)
ExtractLoop(v, st, vs, configMap) ==
    LET r == ScanIter(v, st, vs, configMap)
    IN  IF r.status = "found" THEN ExtractLoop(v, r.start, r.variables, configMap)
        ELSE vs

extractVars(v, configMap) == ExtractLoop(v, 0, EmptyMap, configMap)

\* ------------------------------------------------------------ buildConfigMap
\* A Config block is [Name, Properties]; Properties maps a key to a JSON value
\* [isObject, hasDescription, description]: isObject is the outcome of the
\* type assertion val.(map[string]interface{}), hasDescription that of
\* configProp["description"].(string).
ConfigKey(cfgName, key) == cfgName \o <<".">> \o key

RECURSIVE BuildConfigLoop(_, _, _)
BuildConfigLoop(configs, i, result) ==
    IF i > Len(configs) THEN result
    ELSE LET cfg == configs[i]
             objs == {k \in DOMAIN cfg.Properties : cfg.Properties[k].isObject}
             added == {ConfigKey(cfg.Name, k) : k \in objs}
             propOf(fk) == cfg.Properties[CHOOSE k \in objs : ConfigKey(cfg.Name, k) = fk]
         IN  BuildConfigLoop(configs, i + 1,
                 [fk \in (DOMAIN result) \cup added |->
                     IF fk \in added THEN propOf(fk) ELSE result[fk]])

buildConfigMap(configs) == BuildConfigLoop(configs, 1, EmptyMap)

\* ------------------------------------------------------------ transformEntry
DescLimit == 100
DescKeep == 97
Ellipsis == <<".", ".", ".">>
GithubCom == <<"g", "i", "t", "h", "u", "b", ".", "c", "o", "m">>
GitlabCom == <<"g", "i", "t", "l", "a", "b", ".", "c", "o", "m">>
DashDash == <<"-", "-">>
EqualsTok == <<"=">>
NamePrefix == "com.docker.mcp/"
SchemaURL == "https://static.modelcontextprotocol.io/schemas/2025-10-17/server.schema.json"

NoString == <<>>

\* A variant of TruncateDescription that cuts at the limit before appending
\* the ellipsis.
TruncateDescriptionAtLimit(d) ==
    IF Len(d) > DescLimit THEN SubSeq(d, 1, DescLimit) \o Ellipsis ELSE d

\* Lines 212-215.  len() and the slice count bytes.
TruncateDescription(d) ==
    IF Len(d) > DescLimit THEN SubSeq(d, 1, DescKeep) \o Ellipsis ELSE d

KeyValueInput(n, v, vs, secret, required) ==
    [Name |-> n, Value |-> v, Description |-> "", IsRequired |-> required,
     IsSecret |-> secret, IsRepeated |-> FALSE, Variables |-> vs]

Argument(t, n, v, vs) ==
    [Type |-> t, Name |-> n, Value |-> v, IsRequired |-> FALSE,
     IsSecret |-> FALSE, IsRepeated |-> FALSE, Variables |-> vs]

\* Lines 254-271: the remote transport.  order lists the keys of the Headers
\* map in the order the range statement happens to visit them.
RemoteTransport(remote, order) ==
    [Type |-> remote.TransportType,
     URL |-> remote.URL,
     Headers |-> [i \in 1..Len(order) |->
                    KeyValueInput(order[i], remote.Headers[order[i]], EmptyMap, FALSE, FALSE)]]

\* Lines 286-304
EnvDescriptor(env, configMap) ==
    KeyValueInput(env.Name, convertBraces(env.Value),
                  IF Contains(env.Value, OpenTok)
                  THEN extractVars(env.Value, configMap)
                  ELSE EmptyMap,
                  FALSE, FALSE)

\* A variant of SecretDescriptor that takes the secret flag from the config
\* lookup, as the env pathway does.
SecretDescriptorFromConfig(secret, configMap) ==
    [Name |-> secret.Env,
     Value |-> <<"{">> \o secret.Name \o <<"}">>,
     Description |-> "",
     IsRequired |-> FALSE,
     IsSecret |-> FALSE,
     IsRepeated |-> FALSE,
     Variables |-> MapPut(EmptyMap, secret.Name, InputSchemaFor(secret.Name, configMap))]

\* Lines 306-321.  The config map is in scope but not consulted.
SecretDescriptor(secret, configMap) ==
    [Name |-> secret.Env,
     Value |-> <<"{">> \o secret.Name \o <<"}">>,
     Description |-> "",
     IsRequired |-> FALSE,
     IsSecret |-> FALSE,
     IsRepeated |-> FALSE,
     Variables |-> MapPut(EmptyMap, secret.Name,
                     [IsSecret |-> TRUE, IsRequired |-> TRUE,
                      Format |-> "", Description |-> ""])]

\* A variant of CommandArgument that splits a named token at every "=" and
\* keeps the last part as the value.
CommandArgumentSplitAll(cmd, configMap) ==
    IF HasPrefix(cmd, DashDash)
    THEN LET first == SplitN2(cmd, EqualsTok)
         IN  IF Len(first) > 1
             THEN LET i == CHOOSE k \in 1..Len(cmd) :
                              /\ cmd[k] = "="
                              /\ \A j \in (k + 1)..Len(cmd) : cmd[j] # "="
                      raw == SubSeq(cmd, i + 1, Len(cmd))
                  IN  Argument("named", first[1], convertBraces(raw),
                               IF Contains(raw, OpenTok)
                               THEN extractVars(raw, configMap)
                               ELSE EmptyMap)
             ELSE Argument("named", first[1], NoString, EmptyMap)
    ELSE Argument("positional", NoString, cmd, EmptyMap)

\* Lines 324-344: one command token
CommandArgument(cmd, configMap) ==
    IF HasPrefix(cmd, DashDash)
    THEN LET parts == SplitN2(cmd, EqualsTok)
         IN  IF Len(parts) > 1
             THEN Argument("named", parts[1], convertBraces(parts[2]),
                           IF Contains(parts[2], OpenTok)
                           THEN extractVars(parts[2], configMap)
                           ELSE EmptyMap)
             ELSE Argument("named", parts[1], NoString, EmptyMap)
    ELSE Argument("positional", NoString, cmd, EmptyMap)

\* Lines 348-362 (flag "-v") and 365-379 (flag "-u")
RuntimeArgument(flag, raw, configMap) ==
    Argument("named", flag, convertBraces(raw),
             IF Contains(raw, OpenTok)
             THEN extractVars(raw, configMap)
             ELSE EmptyMap)

\* Lines 273-386: the containerized package
BuildPackage(e, configMap) ==
    LET envs == [i \in 1..Len(e.Env) |-> EnvDescriptor(e.Env[i], configMap)]
        secrets == [i \in 1..Len(e.Secrets) |-> SecretDescriptor(e.Secrets[i], configMap)]
        vols == [i \in 1..Len(e.Volumes) |->
                    RuntimeArgument(<<"-", "v">>, e.Volumes[i], configMap)]
        user == IF e.User # NoString
                THEN <<RuntimeArgument(<<"-", "u">>, e.User, configMap)>>
                ELSE <<>>
        runtime == vols \o user
    IN  [RegistryType |-> "oci",
         Transport |-> [Type |-> "stdio", URL |-> "", Headers |-> <<>>],
         Identifier |-> e.Image,
         Version |-> "",
         EnvironmentVariables |-> envs \o secrets,
         PackageArguments |->
            [i \in 1..Len(e.Command) |-> CommandArgument(e.Command[i], configMap)],
         RuntimeArguments |-> runtime,
         RuntimeHint |-> IF Len(runtime) > 0 THEN "docker" ELSE ""]

\* Lines 388-403
RepositoryOf(e) ==
    IF e.Upstream # NoString
    THEN <<[URL |-> e.Upstream,
            Source |-> IF Contains(e.Upstream, GithubCom) THEN "github"
                       ELSE IF Contains(e.Upstream, GitlabCom) THEN "gitlab"
                       ELSE "",
            Subfolder |-> ""]>>
    ELSE <<>>

\* Lines 254: the condition of the early-return branch
IsRemoteTransport(e) == e.Type = "remote" /\ Len(e.Remote) > 0

\* A variant of transformEntry that takes the remote branch on the type alone
\* and emits no transport when the remote descriptor is missing.
transformEntryTypeOnly(n, e, order) ==
    LET base == [Schema |-> SchemaURL,
                 Name |-> NamePrefix \o n,
                 Description |-> TruncateDescription(e.Description),
                 Version |-> "v0.1.0",
                 Packages |-> <<>>,
                 Remotes |-> <<>>,
                 Repository |-> <<>>]
    IN  IF e.Type = "remote"
        THEN IF Len(e.Remote) > 0
             THEN [base EXCEPT !.Remotes = <<RemoteTransport(e.Remote[1], order)>>]
             ELSE base
        ELSE [base EXCEPT !.Packages = <<BuildPackage(e, buildConfigMap(e.Config))>>,
                          !.Repository = RepositoryOf(e)]

\* A variant of transformEntry whose remote branch does not return: the
\* package and the repository are built for every entry.
transformEntryNoReturn(n, e, order) ==
    LET base == [Schema |-> SchemaURL,
                 Name |-> NamePrefix \o n,
                 Description |-> TruncateDescription(e.Description),
                 Version |-> "v0.1.0",
                 Packages |-> <<BuildPackage(e, buildConfigMap(e.Config))>>,
                 Remotes |-> <<>>,
                 Repository |-> RepositoryOf(e)]
    IN  IF IsRemoteTransport(e)
        THEN [base EXCEPT !.Remotes = <<RemoteTransport(e.Remote[1], order)>>]
        ELSE base

\* transformEntry (lines 210-405).  The publisher-provided metadata bag
\* (lines 227-250) copies entry fields verbatim and is read by no later
\* statement; it is not carried in the model's descriptor.
transformEntry(n, e, order) ==
    LET base == [Schema |-> SchemaURL,
                 Name |-> NamePrefix \o n,
                 Description |-> TruncateDescription(e.Description),
                 Version |-> "v0.1.0",
                 Packages |-> <<>>,
                 Remotes |-> <<>>,
                 Repository |-> <<>>]
    IN  IF IsRemoteTransport(e)
        THEN [base EXCEPT !.Remotes = <<RemoteTransport(e.Remote[1], order)>>]
        ELSE [base EXCEPT !.Packages = <<BuildPackage(e, buildConfigMap(e.Config))>>,
                          !.Repository = RepositoryOf(e)]

\* The orders in which a range over the Headers map may visit its keys
HeaderOrders(e) ==
    IF Len(e.Remote) = 0 THEN {<<>>}
    ELSE LET keys == DOMAIN e.Remote[1].Headers
         IN  {o \in [1..Cardinality(keys) -> keys] :
                 \A i, j \in 1..Cardinality(keys) : i # j => o[i] # o[j]}

\* ------------------------------------------------------------------- inputs
Alphabet == {"{", "}", "|", "x"}

SPlain == <<"8", "0", "8", "0">>
SVar == <<"{", "{", "c", ".", "x", "}", "}">>
STwo == <<"{", "{", "x", "}", "}", "-", "{", "{", "y", "|", "s", "e", "c", "r", "e", "t", "}", "}">>
SOpen == <<"{", "{", "x", "}", "}", ":", "{", "{", "y">>
SVolume == <<"{", "{", "c", ".", "x", "|", "v", "o", "l", "u", "m", "e", "}", "}", ":", "/", "d", "a", "t", "a">>

Samples == {SPlain, SVar, STwo, SOpen, SVolume}

\* every string over the alphabet up to the length bound, and the samples
ScanInputs == UNION {[1..n -> Alphabet] : n \in 0..MaxLen} \cup Samples

\* config blocks: block "c" declares x (an object with a description) and
\* y (a scalar); block "c" declared again overrides x without a description.
ConfigC ==
    [Name |-> <<"c">>,
     Properties |->
        (<<"x">> :> [isObject |-> TRUE, hasDescription |-> TRUE, description |-> "the x"])
        @@ (<<"y">> :> [isObject |-> FALSE, hasDescription |-> FALSE, description |-> ""])]

ConfigC2 ==
    [Name |-> <<"c">>,
     Properties |->
        (<<"x">> :> [isObject |-> TRUE, hasDescription |-> FALSE, description |-> ""])]

ConfigLists == {<<>>, <<ConfigC>>, <<ConfigC, ConfigC2>>}

SampleConfigMap == buildConfigMap(<<ConfigC>>)

\* the lists over S of at most n elements
SeqsUpTo(S, n) == UNION {[1..k -> S] : k \in 0..n}

DescChar(i) == IF i % 3 = 0 THEN "a" ELSE IF i % 3 = 1 THEN "b" ELSE "c"
Descriptions == {[i \in 1..n |-> DescChar(i)] : n \in 0..(DescLimit + DescSlack)}

Upstreams ==
    {NoString,
     <<"h", "t", "t", "p", "s", ":", "/", "/", "g", "i", "t", "h", "u", "b", ".", "c", "o", "m", "/", "a", "c", "m", "e", "/", "t", "o", "o", "l">>,
     <<"h", "t", "t", "p", "s", ":", "/", "/", "g", "i", "t", "l", "a", "b", ".", "c", "o", "m", "/", "a", "c", "m", "e", "/", "t", "o", "o", "l">>,
     <<"h", "t", "t", "p", "s", ":", "/", "/", "e", "x", "a", "m", "p", "l", "e", ".", "c", "o", "m", "/", "a", "c", "m", "e", "/", "t", "o", "o", "l">>}

RemoteSample ==
    [TransportType |-> "sse",
     URL |-> "https://mcp.example.com/sse",
     Headers |-> ("Authorization" :> <<"t">>) @@ ("X-Id" :> SPlain)]

RemoteOptions == {<<>>, <<RemoteSample>>}
TypeOptions == {"remote", "server"}

EnvSamples ==
    {[Name |-> "E1", Value |-> SPlain],
     [Name |-> "E2", Value |-> SVar],
     [Name |-> "E3", Value |-> STwo],
     [Name |-> "E4", Value |-> SOpen]}

SecretSamples ==
    {[Name |-> <<"A", "P", "I", "_", "K", "E", "Y">>, Env |-> "KEY_ENV", Example |-> ""],
     [Name |-> <<"c", ".", "x">>, Env |-> "E2", Example |-> ""]}

CommandSamples ==
    {<<"s", "e", "r", "v", "e">>,
     <<"-", "-", "p", "o", "r", "t", "=", "8", "0", "8", "0">>,
     <<"-", "-", "v", "e", "r", "b", "o", "s", "e">>,
     <<"-", "-", "k", "v", "=", "a", "=", "b">>,
     <<"-", "-", "k", "e", "y", "=", "{", "{", "c", ".", "x", "}", "}">>,
     <<"-", "p", "=", "1">>}

VolumeSamples == {<<"/", "d", ":", "/", "d">>, SVolume}
UserSamples == {NoString, <<"1", "0", "0", "0">>, SVar}

BaseEntry ==
    [Description |-> <<>>, Type |-> "server", Image |-> "acme/tool:1",
     Upstream |-> NoString, Secrets |-> <<>>, Env |-> <<>>, Command |-> <<>>,
     Volumes |-> <<>>, Config |-> <<>>, Remote |-> <<>>, User |-> NoString]

Shaped(e, t, r) == [e EXCEPT !.Type = t, !.Remote = r]

\* The entries transformEntry is applied to: every type / remote-descriptor
\* combination, crossed with one group of related fields at a time.
Entries ==
    {Shaped([BaseEntry EXCEPT !.Description = d, !.Upstream = u], t, r) :
        d \in Descriptions, u \in Upstreams, t \in TypeOptions, r \in RemoteOptions}
    \cup
    {Shaped([BaseEntry EXCEPT !.Env = ev, !.Secrets = sc, !.Config = cf], t, r) :
        ev \in SeqsUpTo(EnvSamples, MaxItems), sc \in SeqsUpTo(SecretSamples, MaxItems),
        cf \in ConfigLists, t \in TypeOptions, r \in RemoteOptions}
    \cup
    {Shaped([BaseEntry EXCEPT !.Command = cm, !.Config = cf], t, r) :
        cm \in SeqsUpTo(CommandSamples, MaxItems),
        cf \in ConfigLists, t \in TypeOptions, r \in RemoteOptions}
    \cup
    {Shaped([BaseEntry EXCEPT !.Volumes = vl, !.User = us, !.Config = cf], t, r) :
        vl \in SeqsUpTo(VolumeSamples, MaxItems), us \in UserSamples,
        cf \in ConfigLists, t \in TypeOptions, r \in RemoteOptions}

Key(i) == "k" \o ToString(i)
Keys == {Key(i) : i \in 1..MaxKeys}

BatchEntries ==
    {Shaped([BaseEntry EXCEPT !.Upstream = u], t, r) :
        u \in {NoString, <<"h", "t", "t", "p", "s", ":", "/", "/", "g", "i", "t", "h", "u", "b", ".", "c", "o", "m", "/", "a">>},
        t \in TypeOptions, r \in RemoteOptions}

Catalogs == UNION {[ks -> BatchEntries] : ks \in SUBSET Keys}

EmptyServer ==
    [Schema |-> "", Name |-> "", Description |-> <<>>, Version |-> "",
     Packages |-> <<>>, Remotes |-> <<>>, Repository |-> <<>>]

\* ------------------------------------------------------------- idle values
BatchIdle ==
    /\ catalog = EmptyMap
    /\ pending = {}
    /\ servers = <<>>
    /\ pc = "idle"

EntryIdle ==
    /\ name = ""
    /\ entry = BaseEntry
    /\ server = EmptyServer
    /\ tpc = "idle"

ScanIdle ==
    /\ value = <<>>
    /\ canon = <<>>
    /\ start = 0
    /\ variables = EmptyMap
    /\ scanpc = "idle"

\* ------------------------------------------------- main: the batch loop
Init ==
    /\ catalog \in Catalogs
    /\ pending = DOMAIN catalog
    /\ servers = <<>>
    /\ pc = "loop"
    /\ EntryIdle
    /\ ScanIdle

\* A variant of IsSkipped that mirrors the branch condition of transformEntry.
IsSkippedWithDescriptor(e) == e.Type = "remote" /\ Len(e.Remote) > 0

\* Line 175: the filter of the batch loop
IsSkipped(e) == e.Type = "remote"

\* Lines 173-177: the range statement yields a remote entry, which is skipped
SkipRemote ==
    /\ pc = "loop"
    /\ \E k \in pending :
          /\ IsSkipped(catalog[k])
          /\ pending' = pending \ {k}
    /\ UNCHANGED <<catalog, servers, pc, entryVars, scanVars>>

\* Lines 173-180: the range statement yields any other entry
TransformAndAppend ==
    /\ pc = "loop"
    /\ \E k \in pending :
          /\ ~IsSkipped(catalog[k])
          /\ \E order \in HeaderOrders(catalog[k]) :
                servers' = Append(servers, transformEntry(k, catalog[k], order))
          /\ pending' = pending \ {k}
    /\ UNCHANGED <<catalog, pc, entryVars, scanVars>>

\* Lines 183-192: the loop is over, the output is serialised
WriteSeed ==
    /\ pc = "loop"
    /\ pending = {}
    /\ pc' = "done"
    /\ UNCHANGED <<catalog, pending, servers, entryVars, scanVars>>

Next == SkipRemote \/ TransformAndAppend \/ WriteSeed

Spec == Init /\ [][Next]_vars

\* ------------------------------------------- one call of transformEntry
EntryInit ==
    /\ name \in Keys
    /\ entry \in Entries
    /\ server = EmptyServer
    /\ tpc = "call"
    /\ BatchIdle
    /\ ScanIdle

Transform ==
    /\ tpc = "call"
    /\ \E order \in HeaderOrders(entry) :
          server' = transformEntry(name, entry, order)
    /\ tpc' = "done"
    /\ UNCHANGED <<name, entry, batchVars, scanVars>>

EntryNext == Transform

EntrySpec == EntryInit /\ [][EntryNext]_vars

\* ------------------------- convertBraces and the scan loop of extractVars
ScanInit ==
    /\ value \in ScanInputs
    /\ canon = <<>>
    /\ start = 0
    /\ variables = EmptyMap
    /\ scanpc = "convert"
    /\ BatchIdle
    /\ EntryIdle

Canonicalize ==
    /\ scanpc = "convert"
    /\ canon' = convertBraces(value)
    /\ scanpc' = "scan"
    /\ UNCHANGED <<value, start, variables, batchVars, entryVars>>

\* Lines 418-446: both tokens found; the iteration records the variable and
\* moves the scan position past the closing token
ScanFound ==
    /\ scanpc = "scan"
    /\ LET r == ScanIter(value, start, variables, SampleConfigMap)
       IN  /\ r.status \in {"found", "panic"}
           /\ start' = r.start
           /\ variables' = r.variables
           /\ scanpc' = IF r.status = "panic" THEN "panic" ELSE "scan"
    /\ UNCHANGED <<value, canon, batchVars, entryVars>>

\* Lines 418-421: no opening token is left
ScanNoOpen ==
    /\ scanpc = "scan"
    /\ ScanIter(value, start, variables, SampleConfigMap).status = "noopen"
    /\ scanpc' = "done"
    /\ UNCHANGED <<value, canon, start, variables, batchVars, entryVars>>

\* Lines 424-427: an opening token without a closing token after it
ScanUnterminated ==
    /\ scanpc = "scan"
    /\ ScanIter(value, start, variables, SampleConfigMap).status = "unterminated"
    /\ scanpc' = "stopped"
    /\ UNCHANGED <<value, canon, start, variables, batchVars, entryVars>>

ScanNext == Canonicalize \/ ScanFound \/ ScanNoOpen \/ ScanUnterminated

ScanSpec == ScanInit /\ [][ScanNext]_vars

\* ============================================================== properties
Containerized(e) == ~(e.Type = "remote" /\ Len(e.Remote) > 0)
Placeholder(n) == <<"{">> \o n \o <<"}">>
Occurs(s, sub) == \E i \in 1..(Len(s) - Len(sub) + 1) : SubSeq(s, i, i + Len(sub) - 1) = sub
OccursAt(s, sub, off) == off >= 0 /\ SubSeq(s, off + 1, off + Len(sub)) = sub
BeforeFirst(s, c) ==
    IF \E i \in 1..Len(s) : s[i] = c
    THEN SubSeq(s, 1, (CHOOSE i \in 1..Len(s) : s[i] = c /\ \A j \in 1..(i - 1) : s[j] # c) - 1)
    ELSE s
SeqRange(q) == {q[i] : i \in 1..Len(q)}

\* C1: the descriptor returned by transformEntry has exactly one of Packages
\* and Remotes non-empty, for every entry type, with or without a remote
\* descriptor.
C1_ExactlyOnePackagesOrRemotes ==
    tpc = "done" => ((Len(server.Packages) > 0) # (Len(server.Remotes) > 0))

C1_Witness ==
    /\ tpc = "done"
    /\ entry.Type = "remote"
    /\ Len(entry.Remote) = 0
    /\ Len(server.Packages) = 1
    /\ Len(server.Remotes) = 0

\* The descriptors of a package that carry a Variables map.
DescriptorsOf(pkg) ==
    SeqRange(pkg.EnvironmentVariables) \cup SeqRange(pkg.PackageArguments)
        \cup SeqRange(pkg.RuntimeArguments)

\* C2: in every environment-variable descriptor and argument produced by
\* transformEntry, each key n of the Variables map occurs as the token {n}
\* in the descriptor's canonical Value.
C2_VariablesOccurInValue ==
    tpc = "done" =>
        \A i \in 1..Len(server.Packages) :
            \A d \in DescriptorsOf(server.Packages[i]) :
                \A n \in DOMAIN d.Variables : Occurs(d.Value, Placeholder(n))

PlainNames == {<<"x">>, <<"x", "x">>}

\* C3: convertBraces rewrites each {{name|modifier...}} to {name}, and
\* extractVars returns exactly the first |-separated segments; in particular
\* "{{x}}-{{y|secret}}" gives "{x}-{y}" with variables exactly {x, y}.
C3_ModifiersRemoved ==
    scanpc \in {"done", "stopped"} =>
        /\ value = STwo =>
              /\ canon = <<"{", "x", "}", "-", "{", "y", "}">>
              /\ DOMAIN variables = {<<"x">>, <<"y">>}
        /\ \A n \in PlainNames, m \in PlainNames :
              value = OpenTok \o n \o <<"|">> \o m \o CloseTok =>
                  /\ canon = Placeholder(n)
                  /\ DOMAIN variables = {n}

Processed == (DOMAIN catalog) \ pending
Emitted == {k \in Processed : catalog[k].Type # "remote"}

\* C4: after the batch loop the output holds exactly one descriptor for each
\* entry whose type is not "remote" and none for a "remote" entry, each named
\* "com.docker.mcp/" + key; at every step no descriptor in the output has a
\* populated Remotes list.
C4_RemoteEntriesNeverEmitted ==
    /\ \A i \in 1..Len(servers) : Len(servers[i].Remotes) = 0
    /\ Len(servers) = Cardinality(Emitted)
    /\ \A k \in Emitted :
          Cardinality({i \in 1..Len(servers) : servers[i].Name = "com.docker.mcp/" \o k}) = 1
    /\ \A k \in DOMAIN catalog :
          catalog[k].Type = "remote" =>
              \A i \in 1..Len(servers) : servers[i].Name # "com.docker.mcp/" \o k
    /\ pc = "done" => pending = {}

C4_Witness ==
    /\ pc = "done"
    /\ Len(servers) >= 1
    /\ \E k \in DOMAIN catalog : catalog[k].Type = "remote" /\ Len(catalog[k].Remote) > 0
    /\ \E k \in DOMAIN catalog : catalog[k].Type = "remote" /\ Len(catalog[k].Remote) = 0

\* C5 as stated: every entry whose type is "remote" gets a descriptor with
\* an empty Packages list, whether or not its remote descriptor is present.
C5_RemoteTypeNoPackages ==
    (tpc = "done" /\ entry.Type = "remote") => Len(server.Packages) = 0

\* C5 amended: an entry whose type is "remote" gets an empty Packages list
\* when its remote descriptor is present, whatever its other fields; without
\* a remote descriptor it gets the one oci/stdio package of a containerized
\* entry.
C5_RemoteWithDescriptorNoPackages ==
    (tpc = "done" /\ entry.Type = "remote") =>
        /\ Len(entry.Remote) > 0 => Len(server.Packages) = 0
        /\ Len(entry.Remote) = 0 =>
              /\ Len(server.Packages) = 1
              /\ server.Packages[1].RegistryType = "oci"
              /\ server.Packages[1].Transport.Type = "stdio"

C5_Witness ==
    /\ tpc = "done"
    /\ entry.Type = "remote"
    /\ Len(entry.Remote) > 0
    /\ Len(entry.Env) > 0
    /\ Len(entry.Secrets) > 0
    /\ Len(server.Packages) = 0

\* C6: each secret {name: N, env: E} of a containerized entry yields one
\* environment-variable descriptor with name E, value "{N}" and a Variables
\* map with the single key N marked isSecret and isRequired, whatever the
\* config blocks say; the secret descriptors follow the env descriptors, both
\* in source order, so there are len(env) + len(secrets) descriptors.
C6_SecretDescriptors ==
    (tpc = "done" /\ Containerized(entry)) =>
        LET out == server.Packages[1].EnvironmentVariables
            ne == Len(entry.Env)
        IN  /\ Len(out) = ne + Len(entry.Secrets)
            /\ \A i \in 1..ne : out[i].Name = entry.Env[i].Name
            /\ \A j \in 1..Len(entry.Secrets) :
                  LET d == out[ne + j]
                      N == entry.Secrets[j].Name
                  IN  /\ d.Name = entry.Secrets[j].Env
                      /\ d.Value = <<"{">> \o N \o <<"}">>
                      /\ DOMAIN d.Variables = {N}
                      /\ d.Variables[N].IsSecret
                      /\ d.Variables[N].IsRequired

C6_Witness ==
    /\ tpc = "done"
    /\ Containerized(entry)
    /\ Len(entry.Env) = 2
    /\ Len(entry.Secrets) = 2
    /\ entry.Secrets[1].Name # entry.Secrets[2].Name
    /\ entry.Config = <<ConfigC>>
    /\ \E j \in 1..2 : ConfigKey(<<"c">>, <<"x">>) = entry.Secrets[j].Name
    /\ Len(server.Packages[1].EnvironmentVariables) = 4

\* C7: the output description equals the input when it has at most 100
\* characters; otherwise it has exactly 100: the first 97 of the input
\* followed by "...".  No output description is longer than 100.
C7_DescriptionTruncated ==
    tpc = "done" =>
        LET in == entry.Description
            out == server.Description
        IN  /\ Len(in) <= 100 => out = in
            /\ Len(in) > 100 =>
                  /\ Len(out) = 100
                  /\ \A i \in 1..97 : out[i] = in[i]
                  /\ \A i \in 98..100 : out[i] = "."
            /\ Len(out) <= 100

C7_Witness ==
    /\ tpc = "done"
    /\ Len(entry.Description) = 101
    /\ Len(server.Description) = 100

\* The argument a that the command token t must yield under config map cfg.
C8_ArgumentFor(t, a, cfg) ==
    IF Len(t) >= 2 /\ t[1] = "-" /\ t[2] = "-"
    THEN /\ a.Type = "named"
         /\ a.Name = BeforeFirst(t, "=")
         /\ IF \E i \in 1..Len(t) : t[i] = "="
            THEN LET rest == SubSeq(t, Len(a.Name) + 2, Len(t))
                 IN  /\ a.Name \o <<"=">> \o rest = t
                     /\ a.Value = convertBraces(rest)
                     /\ a.Variables # EmptyMap => Occurs(rest, OpenTok)
                     /\ a.Variables = IF Occurs(rest, OpenTok)
                                      THEN extractVars(rest, cfg) ELSE EmptyMap
            ELSE a.Value = <<>> /\ a.Variables = EmptyMap
    ELSE /\ a.Type = "positional"
         /\ a.Value = t
         /\ a.Name = <<>>
         /\ a.Variables = EmptyMap

\* C8: each command token of a containerized entry yields one package
\* argument, in token order: a token beginning with "--" is "named", its name
\* the text before the first "=" and its value the canonicalized text after
\* the first "=" (no value and no variables without "="), with variables only
\* when the value part contains "{{"; any other token is "positional" with
\* the token as value and neither name nor variables.
C8_CommandArguments ==
    (tpc = "done" /\ Containerized(entry)) =>
        LET args == server.Packages[1].PackageArguments
        IN  /\ Len(args) = Len(entry.Command)
            /\ \A i \in 1..Len(args) :
                  /\ C8_ArgumentFor(entry.Command[i], args[i], buildConfigMap(entry.Config))
                  /\ entry.Command[i] = <<"-", "-", "p", "o", "r", "t", "=", "8", "0", "8", "0">> =>
                        /\ args[i].Name = <<"-", "-", "p", "o", "r", "t">>
                        /\ args[i].Value = <<"8", "0", "8", "0">>
                        /\ args[i].Variables = EmptyMap
                  /\ entry.Command[i] = <<"s", "e", "r", "v", "e">> =>
                        /\ args[i].Type = "positional"
                        /\ args[i].Value = <<"s", "e", "r", "v", "e">>

C8_Witness ==
    /\ tpc = "done"
    /\ Containerized(entry)
    /\ entry.Command = <<<<"-", "-", "k", "v", "=", "a", "=", "b">>, <<"s", "e", "r", "v", "e">>>>
    /\ server.Packages[1].PackageArguments[1].Value = <<"a", "=", "b">>
    /\ server.Packages[1].PackageArguments[2].Type = "positional"

\* C9: for every entry with a non-empty upstream URL, the descriptor has a
\* Repository with that URL and source "github" if the URL contains
\* "github.com", else "gitlab" if it contains "gitlab.com", else ""; an entry
\* with an empty upstream has no Repository.
C9_RepositoryFromUpstream ==
    tpc = "done" =>
        IF entry.Upstream # <<>>
        THEN /\ Len(server.Repository) = 1
             /\ server.Repository[1].URL = entry.Upstream
             /\ server.Repository[1].Source =
                   IF Occurs(entry.Upstream, <<"g", "i", "t", "h", "u", "b", ".", "c", "o", "m">>) THEN "github"
                   ELSE IF Occurs(entry.Upstream, <<"g", "i", "t", "l", "a", "b", ".", "c", "o", "m">>) THEN "gitlab"
                   ELSE ""
        ELSE Len(server.Repository) = 0

StopPoint == start + Index(SliceFrom(value, start), OpenTok)

\* Every state of the loop has a step to take, and the scan position stays
\* inside the string.
C10_CanStep ==
    scanpc = "scan" =>
        /\ start <= Len(value)
        /\ ScanIter(value, start, variables, SampleConfigMap).status
              \in {"found", "noopen", "unterminated"}

\* What the loop has computed when it stops at an unterminated "{{".
C10_StoppedResult ==
    scanpc = "stopped" =>
        /\ start <= StopPoint
        /\ OccursAt(value, OpenTok, StopPoint)
        /\ ~Occurs(SubSeq(value, StopPoint + 1, Len(value)), CloseTok)
        /\ variables = extractVars(SubSeq(value, 1, StopPoint), SampleConfigMap)
        /\ \A n \in DOMAIN variables :
              \E o \in 0..StopPoint, c \in 0..StopPoint :
                  /\ o + 2 <= c
                  /\ c + 2 <= StopPoint
                  /\ OccursAt(value, OpenTok, o)
                  /\ OccursAt(value, CloseTok, c)
                  /\ n = BeforeFirst(SubSeq(value, o + 3, c), "|")

\* C10: for every input string the scan loop of extractVars terminates
\* without a run-time error, its scan position strictly increasing on each
\* iteration; at a "{{" with no "}}" after it the scan stops, and the result
\* holds exactly the variables of the placeholders closed before that point
\* and nothing from the text after it.
C10_ScanTerminates ==
    /\ [](scanpc # "panic")
    /\ [][(scanpc = "scan" /\ scanpc' = "scan") =>
            (start' > start /\ start' <= Len(value))]_vars
    /\ [](C10_CanStep)
    /\ [](C10_StoppedResult)

C10_Witness ==
    /\ scanpc = "stopped"
    /\ start > 0
    /\ DOMAIN variables # {}
    /\ StopPoint + 2 < Len(value)

\* No two adjacent characters of s are both "{" or both "}".
NoDoubledBrace(s) ==
    \A i \in 1..(Len(s) - 1) :
        ~(s[i] = s[i + 1] /\ s[i] \in {"{", "}"})

\* C11: for every string that contains neither "{{" nor "}}", convertBraces
\* returns the string unchanged and extractVars returns an empty variable map.
C11_NoDoubledBraceIdentity ==
    (NoDoubledBrace(value) /\ scanpc \in {"scan", "done", "stopped", "panic"}) =>
        /\ canon = value
        /\ variables = EmptyMap
        /\ start = 0
        /\ scanpc \in {"scan", "done"}

C11_Witness ==
    /\ scanpc = "done"
    /\ NoDoubledBrace(value)
    /\ \E i \in 1..Len(value) : value[i] = "{"
    /\ \E i \in 1..Len(value) : value[i] = "}"
    /\ \E i \in 1..Len(value) : value[i] = "|"
    /\ canon = value
    /\ variables = EmptyMap

====
